---- MODULE Spec2Model ----
(***************************************************************************)
(* Provider registry and by-name factory of slonyator/auto-registration.   *)
(*                                                                         *)
(* Two independent modules implement the same idea:                        *)
(*   payment.py          PaymentProvider._registry, filled by the          *)
(*                       __init_subclass__ hook (plain dict store);        *)
(*   payment_example.py  provider_registry = ProviderRegistry(), filled by *)
(*                       the hook through ProviderRegistry.register.       *)
(* A process runs one of them (main.py imports payment; payment_example.py *)
(* is a script of its own), so a behaviour starts with one module imported.*)
(*                                                                         *)
(* Python values:                                                          *)
(*   dict      a sequence of <<key, value>> pairs in insertion order       *)
(*   Optional  <<>> for None, <<x>> for a value x                          *)
(*   class     its method resolution order below PaymentProvider, most     *)
(*             derived first: <<"StripeProvider">>, <<"Sub","StripeProvider">> *)
(*   instance  [cls |-> class, attrs |-> dict of its dataclass fields]     *)
(* Dicts and instances are values: a caller keeps no reference to a dict   *)
(* it passed as default_config, and every from_name builds a new instance. *)
(***************************************************************************)
EXTENDS Integers, Sequences, FiniteSets, TLC

VARIABLES
    imported,    \* the module this process imported: "payment" or "payment_example"
    _registry,   \* payment.py: PaymentProvider._registry, name -> [cls, config]
    _providers,  \* payment_example.py: provider_registry._providers, name -> <<cls, config>>
    instances,   \* the caller's variables holding provider instances (Optional each)
    ret,         \* what the last call returned or raised
    threads      \* calls in progress on other threads (used by SpecConc only)

vars == <<imported, _registry, _providers, instances, ret, threads>>

\* ---------------------------------------------------------------- bounds

\* Most keyword arguments a caller passes to from_name.
MaxKwargs == 1
\* Amounts charged range over 0..MaxAmount.
MaxAmount == 1

\* ---------------------------------------------------------------- Python dict

None == <<>>
Some(x) == <<x>>

\* list(d.keys())
Keys(d) == [i \in 1..Len(d) |-> d[i][1]]
KeySet(d) == {d[i][1] : i \in 1..Len(d)}
\* k in d
Has(d, k) == k \in KeySet(d)
\* d[k], for k in d
Get(d, k) == d[CHOOSE i \in 1..Len(d) : d[i][1] = k][2]

\* A faulty DictSet: a store to an existing key moves the key to the end.
DictSetMovesKey(d, k, v) ==
    Append(SelectSeq(d, LAMBDA e : e[1] # k), <<k, v>>)

\* d[k] = v: an existing key keeps its position, a new key goes last.
DictSet(d, k, v) ==
    IF Has(d, k)
    THEN [i \in 1..Len(d) |-> IF d[i][1] = k THEN <<k, v>> ELSE d[i]]
    ELSE Append(d, <<k, v>>)

RECURSIVE DictUpdate(_, _)
\* d.update(e): the items of e stored into d in e's order.
DictUpdate(d, e) ==
    IF e = <<>> THEN d
    ELSE DictUpdate(DictSet(d, e[1][1], e[1][2]), Tail(e))

\* A faulty DictMerge: the defaults win over the caller's keyword arguments.
DictMergeDefaultsWin(a, b) == DictUpdate(DictUpdate(<<>>, b), a)

\* {**a, **b}: a new dict, b's values win.
DictMerge(a, b) == DictUpdate(DictUpdate(<<>>, a), b)

\* default_config or {}: None and the empty dict both give a new empty dict.
OrEmpty(default_config) ==
    IF default_config = None THEN <<>> ELSE default_config[1]

\* ---------------------------------------------------------------- classes

\* The @dataclass providers of payment.py.
PaymentClasses ==
    { <<"ApplePayProvider">>, <<"PayPalProvider">>, <<"GooglePayProvider">> }

\* The @dataclass providers of payment_example.py.
ExampleClasses == { <<"StripeProvider">>, <<"PayPalProvider">> }

\* The class of the MRO that defines __init__ and charge: the dataclass at its end.
Dataclass(cls) == cls[Len(cls)]

\* The dataclass fields, all without defaults, in declaration order.
Fields(cls) ==
    CASE Dataclass(cls) = "ApplePayProvider"  -> <<"merchant_id">>
      [] Dataclass(cls) = "PayPalProvider"    -> <<"client_id", "secret">>
      [] Dataclass(cls) = "GooglePayProvider" -> <<"gateway", "merchant_id">>
      [] Dataclass(cls) = "StripeProvider"    -> <<"api_key">>

FieldSet(cls) == {Fields(cls)[i] : i \in 1..Len(Fields(cls))}

NoExc == [type |-> "", msg |-> "", name |-> "", listed |-> <<>>]

\* A faulty Construct: an __init__ that takes **kwargs and ignores the keywords
\* that are no field.
ConstructIgnoresUnknown(cls, kwargs) ==
    LET missing == SelectSeq(Fields(cls), LAMBDA f : ~Has(kwargs, f))
    IN  IF missing # <<>>
        THEN [exc |-> [type |-> "TypeError",
                       msg |-> "missing required positional arguments",
                       name |-> "", listed |-> missing],
              value |-> None]
        ELSE [exc |-> NoExc,
              value |-> Some([cls |-> cls,
                              attrs |-> [i \in 1..Len(Fields(cls)) |->
                                  <<Fields(cls)[i], Get(kwargs, Fields(cls)[i])>>]])]

\* cls(**kwargs), the generated dataclass __init__: an unexpected keyword is
\* reported before a missing argument; both are TypeError.
Construct(cls, kwargs) ==
    LET unexpected == SelectSeq(Keys(kwargs), LAMBDA k : k \notin FieldSet(cls))
        missing    == SelectSeq(Fields(cls), LAMBDA f : ~Has(kwargs, f))
    IN  IF unexpected # <<>>
        THEN [exc |-> [type |-> "TypeError",
                       msg |-> "got an unexpected keyword argument",
                       name |-> "", listed |-> <<unexpected[1]>>],
              value |-> None]
        ELSE IF missing # <<>>
        THEN [exc |-> [type |-> "TypeError",
                       msg |-> "missing required positional arguments",
                       name |-> "", listed |-> missing],
              value |-> None]
        ELSE [exc |-> NoExc,
              value |-> Some([cls |-> cls,
                              attrs |-> [i \in 1..Len(Fields(cls)) |->
                                  <<Fields(cls)[i], Get(kwargs, Fields(cls)[i])>>]])]

\* The provider identifier each charge() writes into its ChargeResult.
ProviderId(cls) ==
    CASE Dataclass(cls) = "ApplePayProvider"  -> "applepay"
      [] Dataclass(cls) = "PayPalProvider"    -> "paypal"
      [] Dataclass(cls) = "GooglePayProvider" -> "googlepay"
      [] Dataclass(cls) = "StripeProvider"    -> "stripe"

\* The transaction identifier each charge() writes into its ChargeResult.
TransactionId(cls) ==
    CASE Dataclass(cls) = "ApplePayProvider"  -> "applepay_tx_123"
      [] Dataclass(cls) = "PayPalProvider"    -> "paypal_tx_456"
      [] Dataclass(cls) = "GooglePayProvider" -> "googlepay_tx_789"
      [] Dataclass(cls) = "StripeProvider"    -> "stripe_tx_123"

\* A faulty charge: the amount is not echoed.
chargeDropsAmount(self, amount, currency, source) ==
    [provider |-> ProviderId(self.cls), transaction_id |-> TransactionId(self.cls),
     amount |-> 0, currency |-> currency]

\* self.charge(amount, currency, source) -> ChargeResult
charge(self, amount, currency, source) ==
    [provider |-> ProviderId(self.cls), transaction_id |-> TransactionId(self.cls),
     amount |-> amount, currency |-> currency]

\* ---------------------------------------------------------------- payment.py

\* A faulty Payment_init_subclass: a class statement without name= registers
\* the class under its own class name.
Payment_init_subclass_always(registry, cls, name, default_config) ==
    DictSet(registry, IF name # None THEN name[1] ELSE cls[1],
            [cls |-> cls, config |-> OrEmpty(default_config)])

\* PaymentProvider.__init_subclass__(cls, name=, default_config=): the registry
\* after the hook ran. A name already present is stored over.
Payment_init_subclass(registry, cls, name, default_config) ==
    IF name # None
    THEN DictSet(registry, name[1], [cls |-> cls, config |-> OrEmpty(default_config)])
    ELSE registry

\* A faulty Payment_from_name: the keyword arguments are merged into the
\* registered default dict itself (entry.config.update(kwargs)).
Payment_from_name_updates_defaults(registry, name, kwargs) ==
    IF ~Has(registry, name)
    THEN [registry |-> registry,
          exc |-> [type |-> "KeyError", msg |-> "", name |-> name, listed |-> <<>>],
          ctor |-> None, value |-> None]
    ELSE LET entry  == Get(registry, name)
             merged == DictUpdate(entry.config, kwargs)
             made   == Construct(entry.cls, merged)
         IN  [registry |-> DictSet(registry, name, [entry EXCEPT !.config = merged]),
              exc |-> made.exc,
              ctor |-> Some([cls |-> entry.cls, kwargs |-> merged]),
              value |-> made.value]

\* PaymentProvider.from_name(name, **kwargs) of payment.py: the registry after the
\* call, the exception raised, the constructor call made and the instance returned.
Payment_from_name(registry, name, kwargs) ==
    IF ~Has(registry, name)
    THEN [registry |-> registry,
          exc |-> [type |-> "KeyError", msg |-> "", name |-> name, listed |-> <<>>],
          ctor |-> None, value |-> None]
    ELSE LET entry  == Get(registry, name)
             merged == DictMerge(entry.config, kwargs)
             made   == Construct(entry.cls, merged)
         IN  [registry |-> registry,
              exc |-> made.exc,
              ctor |-> Some([cls |-> entry.cls, kwargs |-> merged]),
              value |-> made.value]

\* PaymentProvider.list_available() of payment.py
Payment_list_available(registry) == Keys(registry)

\* _registry once payment.py is imported: the three class statements, in order.
PaymentImported ==
    Payment_init_subclass(
      Payment_init_subclass(
        Payment_init_subclass(<<>>,
          <<"ApplePayProvider">>, Some("applepay"),
          Some(<< <<"merchant_id", "merchant.com.example">> >>)),
        <<"PayPalProvider">>, Some("paypal"),
        Some(<< <<"client_id", "my-app">>, <<"secret", "super-secret">> >>)),
      <<"GooglePayProvider">>, Some("googlepay"),
      Some(<< <<"gateway", "example">>, <<"merchant_id", "exampleMerchantId">> >>))

\* ---------------------------------------------------------------- payment_example.py

\* ProviderRegistry.register(name, provider_cls, default_config): _providers after
\* the call and the exception raised.
register(providers, name, provider_cls, default_config) ==
    IF Has(providers, name)
    THEN [providers |-> providers,
          exc |-> [type |-> "ValueError", msg |-> "Provider {name!r} already registered",
                   name |-> name, listed |-> <<>>]]
    ELSE [providers |-> DictSet(providers, name, <<provider_cls, OrEmpty(default_config)>>),
          exc |-> NoExc]

\* ProviderRegistry.create(name, **kwargs): _providers after the call, the
\* exception raised, the constructor call made and the instance returned.
create(providers, name, kwargs) ==
    IF ~Has(providers, name)
    THEN [providers |-> providers,
          exc |-> [type |-> "ValueError",
                   msg |-> "Unknown provider {name!r}. Known providers: {list}",
                   name |-> name, listed |-> Keys(providers)],
          ctor |-> None, value |-> None]
    ELSE LET provider_cls   == Get(providers, name)[1]
             default_config == Get(providers, name)[2]
             merged_config  == DictMerge(default_config, kwargs)
             made           == Construct(provider_cls, merged_config)
         IN  [providers |-> providers,
              exc |-> made.exc,
              ctor |-> Some([cls |-> provider_cls, kwargs |-> merged_config]),
              value |-> made.value]

\* ProviderRegistry.get_default_config(name): a copy of the registered defaults.
get_default_config(providers, name) ==
    IF ~Has(providers, name)
    THEN [exc |-> [type |-> "ValueError", msg |-> "Unknown provider {name!r}",
                   name |-> name, listed |-> <<>>],
          value |-> None]
    ELSE [exc |-> NoExc, value |-> Some(DictUpdate(<<>>, Get(providers, name)[2]))]

\* ProviderRegistry.list_providers()
list_providers(providers) == Keys(providers)

\* PaymentProvider.__init_subclass__ of payment_example.py: delegates to register.
Example_init_subclass(providers, cls, name, default_config) ==
    IF name # None
    THEN register(providers, name[1], cls, default_config)
    ELSE [providers |-> providers, exc |-> NoExc]

\* PaymentProvider.from_name of payment_example.py: delegates to create.
Example_from_name(providers, name, kwargs) == create(providers, name, kwargs)

\* PaymentProvider.list_available of payment_example.py: delegates to list_providers.
Example_list_available(providers) == list_providers(providers)

\* _providers once payment_example.py is imported: ProviderRegistry() and the two
\* class statements, in order.
ExampleImported ==
    Example_init_subclass(
      Example_init_subclass(<<>>,
        <<"StripeProvider">>, Some("stripe"),
        Some(<< <<"api_key", "sk_test_123">> >>)).providers,
      <<"PayPalProvider">>, Some("paypal"),
      Some(<< <<"client_id", "my-app">>, <<"secret", "super-secret">> >>)).providers

\* ---------------------------------------------------------------- callers' inputs

Modules == {"payment", "payment_example"}

\* The caller's variables that hold provider instances.
Variables == {"a", "b"}

\* Names passed to a class statement or to register: one the module registers
\* itself and one it does not.
RegisterNames(m) ==
    IF m = "payment" THEN {"applepay", "square"} ELSE {"stripe", "square"}

\* Names passed to from_name and get_default_config.
LookupNames(m) ==
    IF m = "payment"
    THEN {"applepay", "paypal", "googlepay", "square", "doesnotexist"}
    ELSE {"stripe", "paypal", "square", "doesnotexist"}

\* The registered providers a caller's class statement derives from.
SubclassBases(m) ==
    IF m = "payment"
    THEN { <<"ApplePayProvider">>, <<"GooglePayProvider">> }
    ELSE { <<"StripeProvider">> }

\* default_config arguments: omitted, empty, and one option.
ConfigInputs(m) ==
    IF m = "payment"
    THEN {None, Some(<<>>), Some(<< <<"merchant_id", "m">> >>)}
    ELSE {None, Some(<<>>), Some(<< <<"api_key", "k">> >>)}

\* Option names a caller overrides.
KwargKeys(m) ==
    IF m = "payment"
    THEN <<"merchant_id", "gateway">>
    ELSE <<"api_key", "secret">>

\* **kwargs of from_name: at most MaxKwargs of the option names, each set to "x".
KwargsInputs(m) ==
    { LET ks == SelectSeq(KwargKeys(m), LAMBDA k : k \in S)
      IN  [i \in 1..Len(ks) |-> <<ks[i], "x">>] :
      S \in {T \in SUBSET KeySet([i \in 1..Len(KwargKeys(m)) |-> <<KwargKeys(m)[i], "x">>]) :
                Cardinality(T) <= MaxKwargs} }

Amounts == 0..MaxAmount
Currencies == {"USD", "EUR"}
Sources == {"apple_pay_token"}

\* ---------------------------------------------------------------- state machine

\* The threads that call into provider_registry at the same time.
Threads == {"t1", "t2"}

Returned(op) ==
    [op |-> op, name |-> None, cls |-> <<>>, default_config |-> None,
     kwargs |-> <<>>, exc |-> NoExc, ctor |-> None, value |-> None]

\* The state once one of the modules ms is imported.
Import(ms) ==
    /\ imported \in ms
    /\ _registry = IF imported = "payment" THEN PaymentImported ELSE <<>>
    /\ _providers = IF imported = "payment_example" THEN ExampleImported ELSE <<>>
    /\ instances = [v \in Variables |-> None]
    /\ ret = Returned("import")
    /\ threads = [t \in Threads |-> [pc |-> "idle", frame |-> Returned("idle")]]

Init == Import(Modules)

\* payment.py: class Sub(base, name=name, default_config=default_config): ...
PaymentClassStatement(base, name, default_config) ==
    /\ imported = "payment"
    /\ LET cls == <<"Sub">> \o base
       IN  /\ _registry' = Payment_init_subclass(_registry, cls, name, default_config)
           /\ ret' = [Returned("class") EXCEPT !.name = name, !.cls = cls,
                                               !.default_config = default_config]
    /\ UNCHANGED <<imported, _providers, instances, threads>>

\* payment.py: v = PaymentProvider.from_name(name, **kwargs)
PaymentFromName(v, name, kwargs) ==
    /\ imported = "payment"
    /\ LET r == Payment_from_name(_registry, name, kwargs)
       IN  /\ _registry' = r.registry
           /\ instances' = IF r.value # None THEN [instances EXCEPT ![v] = r.value]
                           ELSE instances
           /\ ret' = [Returned("from_name") EXCEPT !.name = Some(name), !.kwargs = kwargs,
                          !.exc = r.exc, !.ctor = r.ctor, !.value = r.value]
    /\ UNCHANGED <<imported, _providers, threads>>

\* payment.py: PaymentProvider.list_available()
PaymentListAvailable ==
    /\ imported = "payment"
    /\ ret' = [Returned("list_available") EXCEPT
                  !.value = Some(Payment_list_available(_registry))]
    /\ UNCHANGED <<imported, _registry, _providers, instances, threads>>

\* payment_example.py: class Sub(base, name=name, default_config=default_config): ...
ExampleClassStatement(base, name, default_config) ==
    /\ imported = "payment_example"
    /\ LET cls == <<"Sub">> \o base
           r   == Example_init_subclass(_providers, cls, name, default_config)
       IN  /\ _providers' = r.providers
           /\ ret' = [Returned("class") EXCEPT !.name = name, !.cls = cls,
                          !.default_config = default_config, !.exc = r.exc]
    /\ UNCHANGED <<imported, _registry, instances, threads>>

\* payment_example.py: provider_registry.register(name, provider_cls, default_config)
Register(name, provider_cls, default_config) ==
    /\ imported = "payment_example"
    /\ LET r == register(_providers, name, provider_cls, default_config)
       IN  /\ _providers' = r.providers
           /\ ret' = [Returned("register") EXCEPT !.name = Some(name), !.cls = provider_cls,
                          !.default_config = default_config, !.exc = r.exc]
    /\ UNCHANGED <<imported, _registry, instances, threads>>

\* payment_example.py: v = PaymentProvider.from_name(name, **kwargs)
ExampleFromName(v, name, kwargs) ==
    /\ imported = "payment_example"
    /\ LET r == Example_from_name(_providers, name, kwargs)
       IN  /\ _providers' = r.providers
           /\ instances' = IF r.value # None THEN [instances EXCEPT ![v] = r.value]
                           ELSE instances
           /\ ret' = [Returned("from_name") EXCEPT !.name = Some(name), !.kwargs = kwargs,
                          !.exc = r.exc, !.ctor = r.ctor, !.value = r.value]
    /\ UNCHANGED <<imported, _registry, threads>>

\* payment_example.py: provider_registry.get_default_config(name)
GetDefaultConfig(name) ==
    /\ imported = "payment_example"
    /\ LET r == get_default_config(_providers, name)
       IN  ret' = [Returned("get_default_config") EXCEPT !.name = Some(name),
                       !.exc = r.exc, !.value = r.value]
    /\ UNCHANGED <<imported, _registry, _providers, instances, threads>>

\* payment_example.py: PaymentProvider.list_available()
ExampleListAvailable ==
    /\ imported = "payment_example"
    /\ ret' = [Returned("list_available") EXCEPT
                  !.value = Some(Example_list_available(_providers))]
    /\ UNCHANGED <<imported, _registry, _providers, instances, threads>>

\* v.charge(amount, currency, source) on an instance the caller holds
Charge(v, amount, currency, source) ==
    /\ instances[v] # None
    /\ ret' = [Returned("charge") EXCEPT !.cls = instances[v][1].cls,
                  !.kwargs = <<amount, currency, source>>,
                  !.value = Some(charge(instances[v][1], amount, currency, source))]
    /\ UNCHANGED <<imported, _registry, _providers, instances, threads>>

\* v.field = "x": the caller assigns a field of an instance it holds
SetField(v, field) ==
    /\ instances[v] # None
    /\ field \in FieldSet(instances[v][1].cls)
    /\ instances' = [instances EXCEPT
                        ![v] = Some([@[1] EXCEPT !.attrs = DictSet(@, field, "x")])]
    /\ ret' = [Returned("setattr") EXCEPT !.name = Some(v)]
    /\ UNCHANGED <<imported, _registry, _providers, threads>>

\* Every call, by a caller that keeps one provider instance.
Next ==
    \/ \E base \in SubclassBases("payment"), name \in {None} \cup {Some(n) : n \in RegisterNames("payment")},
          default_config \in ConfigInputs("payment") :
          PaymentClassStatement(base, name, default_config)
    \/ \E v \in {"a"}, name \in LookupNames("payment"), kwargs \in KwargsInputs("payment") :
          PaymentFromName(v, name, kwargs)
    \/ PaymentListAvailable
    \/ \E base \in SubclassBases("payment_example"),
          name \in {None} \cup {Some(n) : n \in RegisterNames("payment_example")},
          default_config \in ConfigInputs("payment_example") :
          ExampleClassStatement(base, name, default_config)
    \/ \E name \in RegisterNames("payment_example"), provider_cls \in ExampleClasses,
          default_config \in ConfigInputs("payment_example") :
          Register(name, provider_cls, default_config)
    \/ \E v \in {"a"}, name \in LookupNames("payment_example"),
          kwargs \in KwargsInputs("payment_example") :
          ExampleFromName(v, name, kwargs)
    \/ \E name \in LookupNames("payment_example") : GetDefaultConfig(name)
    \/ ExampleListAvailable
    \/ \E v \in {"a"}, amount \in Amounts, currency \in Currencies, source \in Sources :
          Charge(v, amount, currency, source)
    \/ \E v \in {"a"}, field \in {"merchant_id", "gateway", "api_key", "secret"} :
          SetField(v, field)

Spec == Init /\ [][Next]_vars


\* The calls that build and change instances, by a caller that keeps two of them.
\* Its class statements register the one name the module does not register itself.
NextInstances ==
    \/ \E base \in SubclassBases("payment"), default_config \in ConfigInputs("payment") :
          PaymentClassStatement(base, Some("square"), default_config)
    \/ \E v \in Variables, name \in LookupNames("payment"), kwargs \in KwargsInputs("payment") :
          PaymentFromName(v, name, kwargs)
    \/ \E base \in SubclassBases("payment_example"),
          default_config \in ConfigInputs("payment_example") :
          ExampleClassStatement(base, Some("square"), default_config)
    \/ \E v \in Variables, name \in LookupNames("payment_example"),
          kwargs \in KwargsInputs("payment_example") :
          ExampleFromName(v, name, kwargs)
    \/ \E v \in Variables, field \in {"merchant_id", "gateway", "api_key", "secret"} :
          SetField(v, field)

SpecInstances == Init /\ [][NextInstances]_vars

\* ---------------------------------------------------------------- reading the state

\* The registry of the imported module.
Registry == IF imported = "payment" THEN _registry ELSE _providers

\* The class and the default configuration registered under name n in registry reg.
EntryCls(reg, n) == IF imported = "payment" THEN Get(reg, n).cls ELSE Get(reg, n)[1]
EntryConfig(reg, n) == IF imported = "payment" THEN Get(reg, n).config ELSE Get(reg, n)[2]

\* from_name and list_available of the imported module.
FromName(reg, n, kwargs) ==
    IF imported = "payment" THEN Payment_from_name(reg, n, kwargs)
    ELSE Example_from_name(reg, n, kwargs)
ListAvailable(reg) ==
    IF imported = "payment" THEN Payment_list_available(reg)
    ELSE Example_list_available(reg)

\* The registry right after the import, before any caller acted.
Imported == IF imported = "payment" THEN PaymentImported ELSE ExampleImported

\* A dict as a mapping, its insertion order forgotten.
AsMap(d) == [k \in KeySet(d) |-> Get(d, k)]

IsMissingError(exc) ==
    exc.type = "TypeError" /\ exc.msg = "missing required positional arguments"
IsUnexpectedError(exc) ==
    exc.type = "TypeError" /\ exc.msg = "got an unexpected keyword argument"

\* The step is a class statement or a register call / a from_name call.
Registering == ret'.op \in {"class", "register"}
Constructing == ret'.op = "from_name"

\* ---------------------------------------------------------------- C1

\* C1 (as claimed): registering a name that is already present raises a
\* duplicate-name error and the entry under that name stays the first-registered
\* (class, default config) pair, in both registries.
C1_DuplicateIsRejected ==
    [][ (Registering /\ ret'.name # None /\ Has(Registry, ret'.name[1]))
        => /\ ret'.exc.type = "ValueError"
           /\ Registry' = Registry ]_vars

\* ---------------------------------------------------------------- C2

\* C2: from_name(n, O) on a registered n calls n's class with a configuration whose
\* keys are exactly keys(D) \cup keys(O), D the registered defaults, and whose value
\* at k is O[k] when k is in O and D[k] otherwise.
C2_MergePrecedence ==
    [][ (Constructing /\ Has(Registry, ret'.name[1]))
        => LET n == ret'.name[1]
               D == EntryConfig(Registry, n)
               O == ret'.kwargs
           IN  /\ ret'.ctor # None
               /\ ret'.ctor[1].cls = EntryCls(Registry, n)
               /\ KeySet(ret'.ctor[1].kwargs) = KeySet(D) \cup KeySet(O)
               /\ \A k \in KeySet(ret'.ctor[1].kwargs) :
                      Get(ret'.ctor[1].kwargs, k) = IF Has(O, k) THEN Get(O, k) ELSE Get(D, k) ]_vars

\* C2's case: googlepay built with one option overridden; the other keeps its default.
C2_Witness ==
    /\ ret.op = "from_name" /\ ret.name = Some("googlepay")
    /\ ret.kwargs = << <<"gateway", "x">> >>
    /\ ret.value # None
    /\ AsMap(ret.value[1].attrs) = [gateway |-> "x", merchant_id |-> "exampleMerchantId"]

\* ---------------------------------------------------------------- C3

\* C3 (as claimed): from_name with a name that is not registered raises an error
\* whose content lists exactly the names registered at that moment, calls no
\* constructor and leaves the registry unchanged, in both modules.
C3_UnknownNameListsKnown ==
    [][ (Constructing /\ ~Has(Registry, ret'.name[1]))
        => /\ ret'.exc.type # ""
           /\ ret'.exc.listed = Keys(Registry)
           /\ ret'.ctor = None /\ ret'.value = None
           /\ instances' = instances
           /\ Registry' = Registry ]_vars

\* ---------------------------------------------------------------- C4

NoDuplicates(seq) == \A i, j \in 1..Len(seq) : seq[i] = seq[j] => i = j

\* C4: list_available() returns every registered name exactly once, in the order of
\* first registration: a step leaves the listing as it is or appends one name not
\* yet listed, and a registration of a listed name (stored over or rejected)
\* neither repeats nor moves it.
C4_ListingOrder ==
    /\ [](/\ NoDuplicates(ListAvailable(Registry))
          /\ {ListAvailable(Registry)[i] : i \in 1..Len(ListAvailable(Registry))}
                 = KeySet(Registry)
          /\ ret.op = "list_available" => ret.value = Some(ListAvailable(Registry)))
    /\ [][ \/ ListAvailable(Registry') = ListAvailable(Registry)
           \/ /\ Registering /\ ret'.name # None
              /\ ~Has(Registry, ret'.name[1])
              /\ ListAvailable(Registry') = Append(ListAvailable(Registry), ret'.name[1]) ]_vars

\* C4's case: a listed name was registered again (stored over in payment.py) and a
\* new name was registered; the listing keeps the first-registration order.
C4_Witness ==
    /\ imported = "payment"
    /\ ret.op = "list_available"
    /\ EntryCls(Registry, "applepay") # <<"ApplePayProvider">>
    /\ ret.value = Some(<<"applepay", "paypal", "googlepay", "square">>)

\* ---------------------------------------------------------------- C5

\* Some field of n's class has no registered default.
LacksADefault(reg, n) ==
    \E f \in FieldSet(EntryCls(reg, n)) : ~Has(EntryConfig(reg, n), f)

\* C5 (as claimed): for a variant with a required option f that has no registered
\* default, from_name raises the construction error exactly when f is absent from
\* the merged configuration, succeeds when the caller supplies f, and leaves the
\* registry unchanged. Stated for the names the module does not register itself,
\* so that no registration stored over another is involved, and with either
\* TypeError of the constructor counted as the error.
C5_MissingExactlyWhenAbsent ==
    [][ (Constructing /\ Has(Registry, ret'.name[1]) /\ ~Has(Imported, ret'.name[1]))
        => \A f \in FieldSet(EntryCls(Registry, ret'.name[1])) :
             ~Has(EntryConfig(Registry, ret'.name[1]), f)
             => /\ ret'.exc.type = "TypeError" <=> ~Has(ret'.ctor[1].kwargs, f)
                /\ Has(ret'.kwargs, f) => (ret'.exc = NoExc /\ ret'.value # None)
                /\ Registry' = Registry ]_vars

\* The retry after a missing-argument error: the same keyword arguments plus the
\* options the error names.
Retry(kwargs, missing) ==
    DictUpdate(kwargs, [i \in 1..Len(missing) |-> <<missing[i], "x">>])

\* C5 (amended): from_name on a registered name returns an instance exactly when the
\* keys of the merged configuration are exactly the fields of the class; it raises
\* the unexpected-keyword TypeError when the merged configuration has a key that is
\* no field, and the missing-argument TypeError when it has none such and lacks a
\* field. The registry is unchanged, and after a missing-argument error the retry
\* with the named options supplied succeeds.
C5_ConstructionErrors ==
    /\ [][ (Constructing /\ Has(Registry, ret'.name[1]))
           => LET F == FieldSet(EntryCls(Registry, ret'.name[1]))
                  M == KeySet(ret'.ctor[1].kwargs)
              IN  /\ (ret'.exc = NoExc /\ ret'.value # None) <=> M = F
                  /\ IsUnexpectedError(ret'.exc) <=> ~(M \subseteq F)
                  /\ IsMissingError(ret'.exc) <=> (M \subseteq F /\ M # F)
                  /\ ret'.exc # NoExc => (ret'.value = None /\ instances' = instances)
                  /\ Registry' = Registry ]_vars
    /\ []( (ret.op = "from_name" /\ IsMissingError(ret.exc))
           => LET again == FromName(Registry, ret.name[1], Retry(ret.kwargs, ret.exc.listed))
              IN  again.exc = NoExc /\ again.value # None )

\* C5's case: "square" is registered with no default for its required option, a
\* from_name without it raised the missing-argument error.
C5_Witness ==
    /\ ret.op = "from_name" /\ ret.name = Some("square")
    /\ Has(Registry, "square") /\ LacksADefault(Registry, "square")
    /\ IsMissingError(ret.exc)
    /\ ret.exc.listed # <<>>
    /\ FromName(Registry, "square", Retry(ret.kwargs, ret.exc.listed)).value # None

\* ---------------------------------------------------------------- C7

\* The outcomes of from_name(n, {}).charge(amount, currency, source) over every
\* registered n whose defaults construct an instance, and every input.
ChargeOutcomes ==
    { [n |-> n, cls |-> EntryCls(Registry, n), amount |-> amount, currency |-> currency,
       outcome |-> charge(FromName(Registry, n, <<>>).value[1], amount, currency, source)] :
      n \in {m \in KeySet(Registry) : FromName(Registry, m, <<>>).value # None},
      amount \in Amounts, currency \in Currencies, source \in Sources }

\* C7 (as claimed): for every registered n whose defaults satisfy all required
\* options, from_name(n, {}).charge(amount, currency, source) returns an outcome
\* whose provider identifier is n, whose amount and currency are the inputs and
\* whose transaction identifier is non-empty.
C7_OutcomeNamesRegisteredName ==
    \A c \in ChargeOutcomes :
        /\ c.outcome.provider = c.n
        /\ c.outcome.amount = c.amount /\ c.outcome.currency = c.currency
        /\ c.outcome.transaction_id # ""

\* C7 (amended): the outcome's amount and currency are the inputs, its transaction
\* identifier is non-empty, and its provider identifier is the one fixed in the
\* class that defines charge: it is n for the names as the module itself registered
\* them, not for every registered name. charge changes neither the registry nor
\* the instance.
C7_OutcomeEchoesInputs ==
    /\ [](\A c \in ChargeOutcomes :
            /\ c.outcome.provider = ProviderId(c.cls)
            /\ (Has(Imported, c.n) /\ Get(Registry, c.n) = Get(Imported, c.n))
                   => c.outcome.provider = c.n
            /\ c.outcome.amount = c.amount /\ c.outcome.currency = c.currency
            /\ c.outcome.transaction_id # "")
    /\ [](ret.op = "charge"
            => /\ ret.value[1].provider = ProviderId(ret.cls)
               /\ ret.value[1].amount = ret.kwargs[1]
               /\ ret.value[1].currency = ret.kwargs[2]
               /\ ret.value[1].transaction_id # "")
    /\ [][ ret'.op = "charge"
           => (Registry' = Registry /\ instances' = instances) ]_vars

\* C7's case: an instance built by name for "square", registered for a class whose
\* charge is ApplePayProvider's, was charged a non-zero amount.
C7_Witness ==
    /\ ret.op = "charge"
    /\ Has(Registry, "square")
    /\ ret.cls = EntryCls(Registry, "square")
    /\ ret.kwargs[1] = MaxAmount
    /\ ret.value[1] = [provider |-> "applepay", transaction_id |-> "applepay_tx_123",
                       amount |-> MaxAmount, currency |-> ret.kwargs[2]]

\* ---------------------------------------------------------------- C8

\* C8 (as claimed): no step removes or replaces an entry of the registry, and
\* from_name, get_default_config and list_available leave it unchanged.
C8_AppendOnly ==
    [][ /\ \A n \in KeySet(Registry) :
              Has(Registry', n) /\ Get(Registry', n) = Get(Registry, n)
        /\ ret'.op \in {"from_name", "get_default_config", "list_available"}
              => Registry' = Registry ]_vars

\* ---------------------------------------------------------------- C10

\* C10: a class statement without name= leaves the registry unchanged; one with
\* name= that completes leaves the class registered under the name with
\* default_config, or an empty dict when default_config is omitted; one that
\* raises leaves the registry unchanged; and from_name(name, O) on a name
\* registered with an empty default configuration passes exactly O to the class.
C10_RegisteredIffNamed ==
    /\ [][ ret'.op = "class"
           => IF ret'.name = None \/ ret'.exc # NoExc
              THEN Registry' = Registry
              ELSE /\ Has(Registry', ret'.name[1])
                   /\ EntryCls(Registry', ret'.name[1]) = ret'.cls
                   /\ EntryConfig(Registry', ret'.name[1]) =
                        (IF ret'.default_config = None THEN <<>> ELSE ret'.default_config[1])
                   /\ KeySet(Registry') = KeySet(Registry) \cup {ret'.name[1]}
                   /\ \A n \in KeySet(Registry) \ {ret'.name[1]} :
                          Get(Registry', n) = Get(Registry, n) ]_vars
    /\ [][ (Constructing /\ Has(Registry, ret'.name[1])
              /\ EntryConfig(Registry, ret'.name[1]) = <<>>)
           => ret'.ctor = Some([cls |-> EntryCls(Registry, ret'.name[1]),
                                kwargs |-> ret'.kwargs]) ]_vars

\* C10's case: "square" was registered by a class statement without default_config
\* and from_name("square", O) passed exactly O to the class.
C10_Witness ==
    /\ ret.op = "from_name" /\ ret.name = Some("square")
    /\ Has(Registry, "square")
    /\ EntryConfig(Registry, "square") = <<>>
    /\ EntryCls(Registry, "square")[1] = "Sub"
    /\ ret.kwargs # <<>>
    /\ ret.ctor[1].kwargs = ret.kwargs
    /\ ret.value # None

\* ---------------------------------------------------------------- C6

\* C6: construction never changes the registered defaults: from_name leaves the
\* registry unchanged, so from_name(n, {}) passes exactly the registered defaults to
\* the class and the instance holds exactly them, for the module's own providers
\* the default_config of their class statements; from_name assigns one instance
\* and leaves the other; assigning a field of an instance changes neither the
\* other instance nor the registry.
C6_DefaultsUntouched ==
    /\ [][ Constructing
           => /\ Registry' = Registry
              /\ \E v \in Variables : \A w \in Variables \ {v} : instances'[w] = instances[w] ]_vars
    /\ [][ ret'.op = "setattr"
           => /\ Registry' = Registry
              /\ \A w \in Variables \ {ret'.name[1]} : instances'[w] = instances[w] ]_vars
    /\ [](\A n \in KeySet(Registry) :
            LET r == FromName(Registry, n, <<>>)
            IN  /\ AsMap(r.ctor[1].kwargs) = AsMap(EntryConfig(Registry, n))
                /\ r.value # None
                     => AsMap(r.value[1].attrs) = AsMap(EntryConfig(Registry, n)))
    /\ [](\A n \in KeySet(Imported) :
            Has(Registry, n) /\ Get(Registry, n) = Get(Imported, n))

\* C6's case: two instances built for "googlepay" hold different configurations
\* after a field of one was assigned, and the registered defaults are the ones
\* of the class statement.
C6_Witness ==
    /\ imported = "payment"
    /\ ret.op = "setattr" /\ ret.name = Some("b")
    /\ instances["a"] # None /\ instances["b"] # None
    /\ instances["a"][1].cls = <<"GooglePayProvider">>
    /\ instances["b"][1].cls = <<"GooglePayProvider">>
    /\ AsMap(instances["a"][1].attrs) = [gateway |-> "x", merchant_id |-> "exampleMerchantId"]
    /\ AsMap(instances["b"][1].attrs) = [gateway |-> "example", merchant_id |-> "x"]
    /\ AsMap(EntryConfig(Registry, "googlepay"))
         = [gateway |-> "example", merchant_id |-> "exampleMerchantId"]

\* ---------------------------------------------------------------- threads

(***************************************************************************)
(* payment_example.py with register and create called from two threads.    *)
(* The interpreter may switch threads between two statements, so register  *)
(* is its membership test (line 61) and then its store (line 63), and      *)
(* create is its membership test (line 71) and then its read (line 77).    *)
(* A thread's frame holds the arguments of its call and, once its pc is    *)
(* back to "idle", what the call returned or raised.                       *)
(***************************************************************************)

\* register, line 61: if name in self._providers: raise ValueError(...)
RegisterCheck(t, name, provider_cls, default_config) ==
    /\ threads[t].pc = "idle"
    /\ LET frame == [Returned("register") EXCEPT !.name = Some(name), !.cls = provider_cls,
                         !.default_config = default_config]
       IN  threads' = [threads EXCEPT ![t] =
             IF Has(_providers, name)
             THEN [pc |-> "idle",
                   frame |-> [frame EXCEPT !.exc =
                       [type |-> "ValueError", msg |-> "Provider {name!r} already registered",
                        name |-> name, listed |-> <<>>]]]
             ELSE [pc |-> "register_store", frame |-> frame]]
    /\ UNCHANGED <<imported, _registry, _providers, instances, ret>>

\* register, line 63: self._providers[name] = (provider_cls, default_config or {})
RegisterStore(t) ==
    /\ threads[t].pc = "register_store"
    /\ LET frame == threads[t].frame
       IN  _providers' = DictSet(_providers, frame.name[1],
                                 <<frame.cls, OrEmpty(frame.default_config)>>)
    /\ threads' = [threads EXCEPT ![t].pc = "idle"]
    /\ UNCHANGED <<imported, _registry, instances, ret>>

\* create, line 71: if name not in self._providers: raise ValueError(...)
CreateCheck(t, name, kwargs) ==
    /\ threads[t].pc = "idle"
    /\ LET frame == [Returned("create") EXCEPT !.name = Some(name), !.kwargs = kwargs]
       IN  threads' = [threads EXCEPT ![t] =
             IF ~Has(_providers, name)
             THEN [pc |-> "idle",
                   frame |-> [frame EXCEPT !.exc =
                       [type |-> "ValueError",
                        msg |-> "Unknown provider {name!r}. Known providers: {list}",
                        name |-> name, listed |-> Keys(_providers)]]]
             ELSE [pc |-> "create_lookup", frame |-> frame]]
    /\ UNCHANGED <<imported, _registry, _providers, instances, ret>>

\* create, lines 77-80: read the entry, merge, construct
CreateLookup(t) ==
    /\ threads[t].pc = "create_lookup"
    /\ LET frame == threads[t].frame
           r     == create(_providers, frame.name[1], frame.kwargs)
       IN  threads' = [threads EXCEPT ![t] =
             [pc |-> "idle",
              frame |-> [frame EXCEPT !.exc = r.exc, !.ctor = r.ctor, !.value = r.value]]]
    /\ UNCHANGED <<imported, _registry, _providers, instances, ret>>

NextConc ==
    \/ \E t \in Threads, name \in RegisterNames("payment_example"),
          provider_cls \in ExampleClasses,
          default_config \in ConfigInputs("payment_example") :
          RegisterCheck(t, name, provider_cls, default_config)
    \/ \E t \in Threads : RegisterStore(t)
    \/ \E t \in Threads, name \in LookupNames("payment_example"),
          kwargs \in KwargsInputs("payment_example") :
          CreateCheck(t, name, kwargs)
    \/ \E t \in Threads : CreateLookup(t)

InitConc == Import({"payment_example"})

SpecConc == InitConc /\ [][NextConc]_vars

\* ---------------------------------------------------------------- C9

\* A call of thread t has returned without raising.
Succeeded(t, op) ==
    /\ threads[t].pc = "idle"
    /\ threads[t].frame.op = op
    /\ threads[t].frame.exc = NoExc

\* C9 (as claimed): with register and create running on two threads, every listed
\* name has a complete (class, default config) entry, a create that found its name
\* built from a complete entry, and two registrations of the same name never both
\* succeed.
C9_ConcurrentRegistration ==
    /\ \A n \in KeySet(_providers) :
           /\ Len(Get(_providers, n)) = 2
           /\ Get(_providers, n)[1] \in ExampleClasses
    /\ \A t \in Threads :
           (threads[t].pc = "idle" /\ threads[t].frame.op = "create"
               /\ threads[t].frame.ctor # None)
           => threads[t].frame.ctor[1].cls \in ExampleClasses
    /\ \A t, u \in Threads :
           (t # u /\ Succeeded(t, "register") /\ Succeeded(u, "register"))
           => threads[t].frame.name # threads[u].frame.name

====
